---- MODULE Spec2Model ----
(***************************************************************************)
(* KeyWatcher (src/index.js): tracks which keyboard keys are held down.    *)
(* Strings (event types, key ids, method names) are sequences of           *)
(* one-character strings, so that capitalisation and the named-key         *)
(* pattern are computed character by character as the code does.           *)
(***************************************************************************)
EXTENDS Integers, Sequences, FiniteSets, TLC

VARIABLES
    activeKeys, \* this.activeKeys (line 43): key id -> bitmask of locations
    listeners,  \* event types for which window has this watcher registered
                \* (lines 57-59, 63-65)
    op,         \* the last operation: "constructor", "handleEvent", "_destroy"
    evt,        \* the event passed to the last handleEvent (line 71)
    prev,       \* activeKeys when the last operation began
    observed,   \* activeKeys as read by a 'change' listener at each
                \* _dispatch of the last operation (lines 186-196)
    warned,     \* the last operation called console.warn (line 76)
    raised,     \* the last operation threw a TypeError
    held,       \* history: the (key, location) pairs delivered as pressed
                \* and not yet released; recorded by Press and Release only
    second      \* a second KeyWatcher on the same window: a record of its
                \* activeKeys, listeners, op, evt, prev, observed, warned
                \* and raised; constructed in SpecTwo only

first == <<activeKeys, listeners, op, evt, prev, observed, warned, raised>>

vars == <<activeKeys, listeners, op, evt, prev, observed, warned, raised, held,
          second>>

(* ------------------------------ bounds --------------------------------- *)

\* largest KeyboardEvent.location delivered
MaxLocation == 2

\* largest location used in the runs that also record the pressed pairs
MaxPairLocation == 1

\* largest location used in the runs with two watchers
MaxTwoLocation == 0

(* ------------------------------ strings -------------------------------- *)

LowerCase == <<"a","b","c","d","e","f","g","h","i","j","k","l","m",
               "n","o","p","q","r","s","t","u","v","w","x","y","z">>

UpperCase == <<"A","B","C","D","E","F","G","H","I","J","K","L","M",
               "N","O","P","Q","R","S","T","U","V","W","X","Y","Z">>

Digits == {"0","1","2","3","4","5","6","7","8","9"}

Range(s) == {s[i] : i \in DOMAIN s}

\* [A-Z]
UpperCaseLetters == Range(UpperCase)

\* [a-zA-Z0-9]
Alphanumerics == Range(LowerCase) \cup Range(UpperCase) \cup Digits

\* String.prototype.toUpperCase on one character
ToUpperCase(c) ==
    IF \E i \in DOMAIN LowerCase : LowerCase[i] = c
    THEN UpperCase[CHOOSE i \in DOMAIN LowerCase : LowerCase[i] = c]
    ELSE c

\* event types
keydown == <<"k","e","y","d","o","w","n">>
keyup == <<"k","e","y","u","p">>
blur == <<"b","l","u","r">>
modifiers == <<"m","o","d","i","f","i","e","r","s">>
focus == <<"f","o","c","u","s">>
Keydown == <<"K","e","y","d","o","w","n">>
EmptyString == <<>>

\* key ids
a == <<"a">>
b == <<"b">>
Shift == <<"S","h","i","f","t">>
Alt == <<"A","l","t">>
Dead == <<"D","e","a","d">>

Keys == {a, Shift, Dead}

Locations == 0 .. MaxLocation

(* --------------------------- 32-bit integers --------------------------- *)

\* a & b on two's-complement integers
RECURSIVE BitAnd(_, _)
BitAnd(x, y) ==
    IF x = 0 \/ y = 0 THEN 0
    ELSE IF x = -1 THEN y
    ELSE IF y = -1 THEN x
    ELSE (x % 2) * (y % 2) + 2 * BitAnd(x \div 2, y \div 2)

\* a | b on two's-complement integers
RECURSIVE BitOr(_, _)
BitOr(x, y) ==
    IF x = 0 THEN y
    ELSE IF y = 0 THEN x
    ELSE IF x = -1 \/ y = -1 THEN -1
    ELSE (IF x % 2 = 1 \/ y % 2 = 1 THEN 1 ELSE 0) + 2 * BitOr(x \div 2, y \div 2)

\* ~a
BitNot(x) == -x - 1

\* 1 << location: the shift count is taken modulo 32, the result is an int32
ShiftLeftOne(location) ==
    IF location % 32 = 31 THEN -2147483647 - 1 ELSE 2 ^ (location % 32)

(* --------------------------- the activeKeys object --------------------- *)

EmptyObject == [k \in {} |-> 0]

\* this.activeKeys[key], undefined read as 0 (both are falsy)
Get(obj, key) == IF key \in DOMAIN obj THEN obj[key] ELSE 0

\* this.activeKeys[key] = value
Put(obj, key, value) ==
    [k \in DOMAIN obj \cup {key} |-> IF k = key THEN value ELSE obj[k]]

\* delete this.activeKeys[key]
Delete(obj, key) == [k \in DOMAIN obj \ {key} |-> obj[k]]

(* ------------------------------ methods -------------------------------- *)

\* /^[A-Z][a-zA-Z0-9]+$/
_isNamedKey(key) ==
    /\ Len(key) >= 2
    /\ key[1] \in UpperCaseLetters
    /\ \A i \in 2 .. Len(key) : key[i] \in Alphanumerics

\* _removeUnnamedKeys without the test that skips the named keys
_removeUnnamedKeys_All(obj) ==
    [keys |-> EmptyObject, removed |-> DOMAIN obj # {}]

\* the object after _removeUnnamedKeys, and its return value
_removeUnnamedKeys(obj) ==
    [keys    |-> [k \in {n \in DOMAIN obj : _isNamedKey(n)} |-> obj[k]],
     removed |-> \E k \in DOMAIN obj : ~_isNamedKey(k)]

\* _handleModifiers without the unnamed-key cleanup
_handleModifiers_NoCleanup(obj, key) ==
    [keys |-> obj, changed |-> FALSE, key |-> key, isNull |-> key = Dead]

\* _handleModifiers that returns "Dead" as it came
_handleModifiers_KeepsDead(obj, key) ==
    LET r == _removeUnnamedKeys(obj)
        named == _isNamedKey(key)
    IN  [keys    |-> IF named THEN r.keys ELSE obj,
         changed |-> IF named THEN r.removed ELSE FALSE,
         key     |-> key,
         isNull  |-> FALSE]

\* the object after _handleModifiers(key) and the returned [key, changed];
\* isNull stands for the null returned in place of "Dead"
_handleModifiers(obj, key) ==
    LET r == _removeUnnamedKeys(obj)
        named == _isNamedKey(key)
    IN  [keys    |-> IF named THEN r.keys ELSE obj,
         changed |-> IF named THEN r.removed ELSE FALSE,
         key     |-> key,
         isNull  |-> key = Dead]

\* if (key): null and the empty string are falsy
Truthy(m) == ~m.isNull /\ m.key # EmptyString

\* the snapshots of activeKeys seen by 'change' listeners during _dispatch
_dispatch(obj) == <<obj>>

Outcome(obj, changed) ==
    [keys   |-> obj,
     seen   |-> IF changed THEN _dispatch(obj) ELSE <<>>,
     warn   |-> FALSE,
     error  |-> FALSE]

\* _handleKeydown that marks a change whenever it sets a location bit
_handleKeydown_ChangedOnNewBit(obj, e) ==
    LET m == _handleModifiers(obj, e.key)
        key == m.key
    IN  IF Truthy(m)
        THEN LET wasActive == Get(m.keys, key)
                 o1 == Put(m.keys, key, wasActive)
                 bitwise == ShiftLeftOne(e.location)
             IN  IF BitAnd(o1[key], bitwise) = 0
                 THEN Outcome(Put(o1, key, BitOr(o1[key], bitwise)), TRUE)
                 ELSE Outcome(o1, m.changed)
        ELSE Outcome(m.keys, m.changed)

_handleKeydown(obj, e) ==
    LET m == _handleModifiers(obj, e.key)
        key == m.key
    IN  IF Truthy(m)
        THEN LET wasActive == Get(m.keys, key)
                 o1 == Put(m.keys, key, wasActive)
                 bitwise == ShiftLeftOne(e.location)
             IN  IF BitAnd(o1[key], bitwise) = 0
                 THEN Outcome(Put(o1, key, BitOr(o1[key], bitwise)),
                              m.changed \/ wasActive = 0)
                 ELSE Outcome(o1, m.changed)
        ELSE Outcome(m.keys, m.changed)

\* _handleKeyup that removes the key whichever location is released
_handleKeyup_DeleteOnAnyRelease(obj, e) ==
    LET m == _handleModifiers(obj, e.key)
        key == m.key
    IN  IF Truthy(m) /\ Get(m.keys, key) # 0
        THEN Outcome(Delete(m.keys, key), TRUE)
        ELSE Outcome(m.keys, m.changed)

\* _handleKeyup without the test that the key is active
_handleKeyup_NoActiveCheck(obj, e) ==
    LET m == _handleModifiers(obj, e.key)
        key == m.key
    IN  IF Truthy(m)
        THEN LET bitwiseInverse == BitNot(ShiftLeftOne(e.location))
                 o1 == Put(m.keys, key, BitAnd(Get(m.keys, key), bitwiseInverse))
             IN  IF o1[key] = 0
                 THEN Outcome(Delete(o1, key), TRUE)
                 ELSE Outcome(o1, m.changed)
        ELSE Outcome(m.keys, m.changed)

\* _handleKeyup that leaves the key in place when its last bit is cleared
_handleKeyup_NoDelete(obj, e) ==
    LET m == _handleModifiers(obj, e.key)
        key == m.key
    IN  IF Truthy(m) /\ Get(m.keys, key) # 0
        THEN LET bitwiseInverse == BitNot(ShiftLeftOne(e.location))
                 o1 == Put(m.keys, key, BitAnd(m.keys[key], bitwiseInverse))
             IN  IF o1[key] = 0
                 THEN Outcome(o1, TRUE)
                 ELSE Outcome(o1, m.changed)
        ELSE Outcome(m.keys, m.changed)

\* _handleKeyup that dispatches before it deletes the released key
_handleKeyup_DispatchBeforeDelete(obj, e) ==
    LET m == _handleModifiers(obj, e.key)
        key == m.key
    IN  IF Truthy(m) /\ Get(m.keys, key) # 0
        THEN LET bitwiseInverse == BitNot(ShiftLeftOne(e.location))
                 o1 == Put(m.keys, key, BitAnd(m.keys[key], bitwiseInverse))
             IN  IF o1[key] = 0
                 THEN [keys |-> Delete(o1, key), seen |-> _dispatch(o1),
                       warn |-> FALSE, error |-> FALSE]
                 ELSE Outcome(o1, m.changed)
        ELSE Outcome(m.keys, m.changed)

_handleKeyup(obj, e) ==
    LET m == _handleModifiers(obj, e.key)
        key == m.key
    IN  IF Truthy(m) /\ Get(m.keys, key) # 0
        THEN LET bitwiseInverse == BitNot(ShiftLeftOne(e.location))
                 o1 == Put(m.keys, key, BitAnd(m.keys[key], bitwiseInverse))
             IN  IF o1[key] = 0
                 THEN Outcome(Delete(o1, key), TRUE)
                 ELSE Outcome(o1, m.changed)
        ELSE Outcome(m.keys, m.changed)

\* _removeAll that deletes the unnamed keys only
_removeAll_KeepsNamed(obj) == Outcome(_removeUnnamedKeys(obj).keys, TRUE)

_removeAll(obj) == Outcome(EmptyObject, TRUE)

_handleBlur(obj) == _removeAll(obj)

\* the method names of KeyWatcher that start with '_handle'
_handle == <<"_", "h", "a", "n", "d", "l", "e">>
KeydownMethod == _handle \o <<"K","e","y","d","o","w","n">>
KeyupMethod == _handle \o <<"K","e","y","u","p">>
BlurMethod == _handle \o <<"B","l","u","r">>
ModifiersMethod == _handle \o <<"M","o","d","i","f","i","e","r","s">>

\* '_handle' + evt.type[0].toUpperCase() + evt.type.slice(1)
TypeHandler(type) == _handle \o <<ToUpperCase(Head(type))>> \o Tail(type)

\* a TypeError thrown out of handleEvent: nothing was changed before it
Throw(obj) == [keys |-> obj, seen |-> <<>>, warn |-> FALSE, error |-> TRUE]

\* console.warn(...)
Warn(obj) == [keys |-> obj, seen |-> <<>>, warn |-> TRUE, error |-> FALSE]

\* what one call of handleEvent(e) does to the object
handleEvent(obj, e) ==
    IF e.type = EmptyString
    THEN Throw(obj)      \* evt.type[0] is undefined
    ELSE LET typeHandler == TypeHandler(e.type)
         IN  IF typeHandler = KeydownMethod THEN _handleKeydown(obj, e)
             ELSE IF typeHandler = KeyupMethod THEN _handleKeyup(obj, e)
             ELSE IF typeHandler = BlurMethod THEN _handleBlur(obj)
             ELSE IF typeHandler = ModifiersMethod
             THEN Throw(obj) \* _handleModifiers(evt): evt.match is not a function
             ELSE Warn(obj)

(* ------------------------------- events -------------------------------- *)

NoEvent == [type |-> EmptyString, key |-> EmptyString, location |-> 0]

KeyEvents == [type : {keydown, keyup}, key : Keys, location : Locations]

PlainEvent(t) == [type |-> t, key |-> EmptyString, location |-> 0]

\* events the host window can fire
WindowEvents == KeyEvents \cup {PlainEvent(blur), PlainEvent(focus)}

\* events a caller can pass to handleEvent
DirectEvents ==
    WindowEvents
    \cup {PlainEvent(modifiers), PlainEvent(EmptyString)}
    \cup [type : {Keydown}, key : Keys, location : Locations]

(* ------------------------------ actions -------------------------------- *)

\* no second watcher has been constructed
NoWatcher ==
    [activeKeys |-> EmptyObject, listeners |-> {}, op |-> "none",
     evt |-> NoEvent, prev |-> EmptyObject, observed |-> <<>>,
     warned |-> FALSE, raised |-> FALSE]

\* a watcher right after new KeyWatcher()
NewWatcher ==
    [activeKeys |-> EmptyObject, listeners |-> {keydown, keyup, blur},
     op |-> "constructor", evt |-> NoEvent, prev |-> EmptyObject,
     observed |-> <<>>, warned |-> FALSE, raised |-> FALSE]

Init ==
    /\ second = NoWatcher
    /\ activeKeys = EmptyObject
    /\ listeners = {keydown, keyup, blur}
    /\ op = "constructor"
    /\ evt = NoEvent
    /\ prev = EmptyObject
    /\ observed = <<>>
    /\ warned = FALSE
    /\ raised = FALSE
    /\ held = {}

Handle(e) ==
    LET r == handleEvent(activeKeys, e)
    IN  /\ activeKeys' = r.keys
        /\ observed' = r.seen
        /\ warned' = r.warn
        /\ raised' = r.error
        /\ prev' = activeKeys
        /\ evt' = e
        /\ op' = "handleEvent"
        /\ UNCHANGED listeners

\* the window dispatches e to the listeners registered for its type
WindowDispatch(e) ==
    /\ e.type \in listeners
    /\ Handle(e)
    /\ UNCHANGED <<held, second>>

\* handleEvent called by other code
DirectCall(e) ==
    /\ Handle(e)
    /\ UNCHANGED <<held, second>>

\* _destroy that unregisters every watcher from the window
_destroy_AllWatchers ==
    /\ listeners' = listeners \ {keydown, keyup, blur}
    /\ second' = [second EXCEPT !.listeners = @ \ {keydown, keyup, blur}]
    /\ op' = "_destroy"
    /\ prev' = activeKeys
    /\ observed' = <<>>
    /\ warned' = FALSE
    /\ raised' = FALSE
    /\ UNCHANGED <<activeKeys, evt, held>>

_destroy ==
    /\ listeners' = listeners \ {keydown, keyup, blur}
    /\ op' = "_destroy"
    /\ prev' = activeKeys
    /\ observed' = <<>>
    /\ warned' = FALSE
    /\ raised' = FALSE
    /\ UNCHANGED <<activeKeys, evt, held, second>>

Next ==
    \/ \E e \in WindowEvents : WindowDispatch(e)
    \/ \E e \in DirectEvents : DirectCall(e)
    \/ _destroy

Spec == Init /\ [][Next]_vars

(* ---- key-down / key-up sequences with the pressed pairs recorded ------ *)

PairLocations == 0 .. MaxPairLocation

\* the window delivers a key-down of (key, location)
Press(key, location) ==
    /\ keydown \in listeners
    /\ Handle([type |-> keydown, key |-> key, location |-> location])
    /\ held' = held \cup {<<key, location>>}
    /\ UNCHANGED second

\* the window delivers the key-up that matches an earlier key-down
Release(key, location) ==
    /\ keyup \in listeners
    /\ <<key, location>> \in held
    /\ Handle([type |-> keyup, key |-> key, location |-> location])
    /\ held' = held \ {<<key, location>>}
    /\ UNCHANGED second

NextKeys ==
    \/ \E key \in Keys, location \in PairLocations : Press(key, location)
    \/ \E key \in Keys, location \in PairLocations : Release(key, location)

SpecKeys == Init /\ [][NextKeys]_vars

(* ---- sequences of key-downs and key-ups of unnamed keys only ---------- *)

UnnamedOnlyKeys == {a, b}

\* the window delivers a key-up of a (key, location) that is not pressed
ReleaseUnpressed(key, location) ==
    /\ keyup \in listeners
    /\ <<key, location>> \notin held
    /\ Handle([type |-> keyup, key |-> key, location |-> location])
    /\ UNCHANGED <<held, second>>

NextUnnamed ==
    \/ \E key \in UnnamedOnlyKeys, location \in Locations : Press(key, location)
    \/ \E key \in UnnamedOnlyKeys, location \in Locations : Release(key, location)
    \/ \E key \in UnnamedOnlyKeys, location \in Locations :
          ReleaseUnpressed(key, location)

SpecUnnamed == Init /\ [][NextUnnamed]_vars

(* ---- key events over two unnamed and two named keys -------------------- *)

FrameKeys == {a, b, Shift, Alt}

FrameEvents == [type : {keydown, keyup}, key : FrameKeys, location : PairLocations]

NextFrame == \E e \in FrameEvents : WindowDispatch(e)

SpecFrame == Init /\ [][NextFrame]_vars

(* ---- two watchers on the same window ----------------------------------- *)

InitTwo ==
    /\ second = NewWatcher
    /\ activeKeys = EmptyObject
    /\ listeners = {keydown, keyup, blur}
    /\ op = "constructor"
    /\ evt = NoEvent
    /\ prev = EmptyObject
    /\ observed = <<>>
    /\ warned = FALSE
    /\ raised = FALSE
    /\ held = {}

\* handleEvent(e) of the second watcher
HandleSecond(e) ==
    LET r == handleEvent(second.activeKeys, e)
    IN  second' = [activeKeys |-> r.keys,
                   listeners  |-> second.listeners,
                   op         |-> "handleEvent",
                   evt        |-> e,
                   prev       |-> second.activeKeys,
                   observed   |-> r.seen,
                   warned     |-> r.warn,
                   raised     |-> r.error]

\* the window dispatches e to every watcher registered for its type, in the
\* order of registration
WindowDispatchTwo(e) ==
    /\ e.type \in listeners \cup second.listeners
    /\ IF e.type \in listeners THEN Handle(e) ELSE UNCHANGED first
    /\ IF e.type \in second.listeners THEN HandleSecond(e) ELSE UNCHANGED second
    /\ UNCHANGED held

\* _destroy of the second watcher
_destroySecond ==
    /\ second' = [second EXCEPT !.listeners = @ \ {keydown, keyup, blur},
                                !.op = "_destroy",
                                !.prev = second.activeKeys,
                                !.observed = <<>>,
                                !.warned = FALSE,
                                !.raised = FALSE]
    /\ UNCHANGED <<first, held>>

TwoKeys == {a, Shift}

TwoLocations == 0 .. MaxTwoLocation

TwoEvents ==
    [type : {keydown, keyup}, key : TwoKeys, location : TwoLocations]
    \cup {PlainEvent(blur)}

NextTwo ==
    \/ \E e \in TwoEvents : WindowDispatchTwo(e)
    \/ _destroy
    \/ _destroySecond

SpecTwo == InitTwo /\ [][NextTwo]_vars

(* ------------------------------ properties ----------------------------- *)

\* the last operation was a call of handleEvent
Handled == op = "handleEvent"

\* the last call of handleEvent was routed to the given method
HandledBy(method) ==
    /\ Handled
    /\ evt.type # EmptyString
    /\ TypeHandler(evt.type) = method

\* number of 'change' notifications emitted by the last operation
Notified == Len(observed)

UnnamedKeys(obj) == {k \in DOMAIN obj : ~_isNamedKey(k)}

NamedKeys(obj) == {k \in DOMAIN obj : _isNamedKey(k)}

HeldKeys == {p[1] : p \in held}

HasBit(obj, key, location) ==
    key \in DOMAIN obj /\ BitAnd(obj[key], ShiftLeftOne(location)) # 0

\* C1: a blur emits a change notification if and only if the mapping was
\* non-empty immediately before it (none when the mapping was empty).
C1_BlurNotifiesIffNonEmpty ==
    HandledBy(BlurMethod) => (Notified > 0 <=> prev # EmptyObject)

\* C2 (as stated): after any key-down / key-up sequence with matching
\* key-ups, the key ids in the mapping are exactly the keys with a location
\* pressed and not yet released.
C2_MappingEqualsPressed == DOMAIN activeKeys = HeldKeys

\* C2 (amended): the named key ids in the mapping are exactly the named keys
\* other than "Dead" with a location pressed and not yet released, and the
\* unnamed key ids in the mapping are among the unnamed keys still pressed.
C2_NamedEqualUnnamedSubset ==
    /\ NamedKeys(activeKeys) = {k \in HeldKeys : _isNamedKey(k) /\ k # Dead}
    /\ UnnamedKeys(activeKeys) \subseteq {k \in HeldKeys : ~_isNamedKey(k)}

\* an unnamed key is still pressed but was removed by a named key's event
C2_Witness ==
    /\ a \in HeldKeys
    /\ a \notin DOMAIN activeKeys
    /\ Shift \in DOMAIN activeKeys
    /\ Dead \in HeldKeys

\* C3 (as stated): a key-down for a (key, location) that was pressed and not
\* yet released emits no change notification, whatever happened in between.
C3_RepeatedKeydownIsSilent ==
    [][(/\ op' = "handleEvent"
        /\ evt'.type = keydown
        /\ <<evt'.key, evt'.location>> \in held)
       => observed' = <<>>]_vars

\* C3 (amended): a key-down for a (key, location) that was pressed and not
\* yet released emits no change notification provided the key is still in
\* the mapping (or is "Dead") and the event removes no unnamed key.
C3_RepeatedKeydownSilentWhileActive ==
    [][(/\ op' = "handleEvent"
        /\ evt'.type = keydown
        /\ <<evt'.key, evt'.location>> \in held
        /\ evt'.key = Dead \/ evt'.key \in DOMAIN activeKeys
        /\ _isNamedKey(evt'.key) => UnnamedKeys(activeKeys) = {})
       => observed' = <<>>]_vars

\* a repeated key-down of an active (key, location), after another key was
\* pressed in between, that emitted nothing
C3_Witness ==
    /\ HandledBy(KeydownMethod)
    /\ <<evt.key, evt.location>> \in held
    /\ HasBit(prev, evt.key, evt.location)
    /\ Cardinality(DOMAIN prev) >= 2
    /\ observed = <<>>

\* C4 (as stated): key-down Shift at location 1 then key-down Shift at
\* location 2 leaves both bits set, with exactly one notification after
\* each of the two key-downs.
C4_OneNotificationAfterEachKeydown ==
    /\ (/\ HandledBy(KeydownMethod)
        /\ evt.key = Shift /\ evt.location = 1
        /\ prev = EmptyObject)
       => (activeKeys = (Shift :> 2) /\ Notified = 1)
    /\ (/\ HandledBy(KeydownMethod)
        /\ evt.key = Shift /\ evt.location = 2
        /\ prev = (Shift :> 2))
       => (activeKeys = (Shift :> 6) /\ Notified = 1)

\* C4 (amended): key-down Shift at location 1 then key-down Shift at
\* location 2 leaves both bits set; one notification is emitted after the
\* first key-down and none after the second.
C4_NotificationOnlyOnFirstLocation ==
    /\ (/\ HandledBy(KeydownMethod)
        /\ evt.key = Shift /\ evt.location = 1
        /\ prev = EmptyObject)
       => (activeKeys = (Shift :> 2) /\ Notified = 1)
    /\ (/\ HandledBy(KeydownMethod)
        /\ evt.key = Shift /\ evt.location = 2
        /\ prev = (Shift :> 2))
       => (activeKeys = (Shift :> 6) /\ Notified = 0)

\* the second location of Shift has just been pressed
C4_Witness ==
    /\ HandledBy(KeydownMethod)
    /\ evt.key = Shift /\ evt.location = 2
    /\ prev = (Shift :> 2)
    /\ activeKeys = (Shift :> 6)

\* C5: after _destroy no event, however it reaches the tracker, changes the
\* mapping or emits a change notification.
C5_NothingAfterDestroy ==
    (Handled /\ listeners = {}) => (activeKeys = prev /\ Notified = 0)

\* C6: an event whose type is not keydown, keyup or blur only logs a
\* warning: no error, no change of the mapping, no notification.
C6_OtherTypesOnlyWarn ==
    (Handled /\ evt.type \notin {keydown, keyup, blur})
       => (warned /\ ~raised /\ activeKeys = prev /\ Notified = 0)

\* C7 (as stated): a key-up for a key id that is not in the mapping changes
\* nothing and emits nothing, for named and unnamed key ids alike.
C7_KeyupOfAbsentKeyIsNoOp ==
    (HandledBy(KeyupMethod) /\ evt.key \notin DOMAIN prev)
       => (activeKeys = prev /\ Notified = 0)

\* C7 (amended): a key-up for a key id that is not in the mapping changes
\* nothing and emits nothing when the key id is unnamed, or named while the
\* mapping holds no unnamed key id; a key-up of a named key id that is not
\* in the mapping removes the unnamed key ids and emits one notification
\* when there was one to remove.
C7_KeyupOfAbsentKeyOnlyCleansUp ==
    (HandledBy(KeyupMethod) /\ evt.key \notin DOMAIN prev)
       => IF _isNamedKey(evt.key) /\ UnnamedKeys(prev) # {}
          THEN /\ activeKeys = [k \in NamedKeys(prev) |-> prev[k]]
               /\ Notified = 1
          ELSE /\ activeKeys = prev
               /\ Notified = 0

\* a key-up of an unnamed key that is not in a non-empty mapping
C7_Witness ==
    /\ HandledBy(KeyupMethod)
    /\ evt.key = a
    /\ a \notin DOMAIN prev
    /\ prev # EmptyObject
    /\ activeKeys = prev

\* C8: right after a key-down of a named key the mapping holds no unnamed
\* key id; from {a: bit 0}, key-down Shift at location 1 gives exactly
\* {Shift: bit 1} and exactly one notification.
C8_NamedKeydownClearsUnnamed ==
    /\ (HandledBy(KeydownMethod) /\ _isNamedKey(evt.key))
       => UnnamedKeys(activeKeys) = {}
    /\ (/\ HandledBy(KeydownMethod)
        /\ evt.key = Shift /\ evt.location = 1
        /\ prev = (a :> 1))
       => (activeKeys = (Shift :> 2) /\ Notified = 1)

\* key-down Shift at location 1 arrived while the mapping was {a: bit 0}
C8_Witness ==
    /\ HandledBy(KeydownMethod)
    /\ evt.key = Shift /\ evt.location = 1
    /\ prev = (a :> 1)
    /\ a \notin DOMAIN activeKeys

\* C9: "Dead" is never a key of the mapping, neither between events nor in
\* a mapping seen at a change notification.
C9_DeadNeverActive ==
    /\ Dead \notin DOMAIN activeKeys
    /\ \A i \in DOMAIN observed : Dead \notin DOMAIN observed[i]

\* a key-down of "Dead" has just been handled
C9_Witness ==
    /\ HandledBy(KeydownMethod)
    /\ evt.key = Dead
    /\ prev # EmptyObject

NonZeroMasks(obj) ==
    \A k \in DOMAIN obj :
        /\ obj[k] # 0
        /\ \E location \in Locations : HasBit(obj, k, location)

\* C10: between events and at every change notification, every key id in
\* the mapping has a non-zero bitmask with a location bit set.
C10_PresentKeysHaveBits ==
    /\ NonZeroMasks(activeKeys)
    /\ \A i \in DOMAIN observed : NonZeroMasks(observed[i])

\* the key-up of the last pressed location of a key has removed the key
C10_Witness ==
    /\ HandledBy(KeyupMethod)
    /\ evt.key \in DOMAIN prev
    /\ evt.key \notin DOMAIN activeKeys
    /\ activeKeys # EmptyObject
    /\ Notified = 1

\* C11: after a blur the mapping is empty, whatever it was before.
C11_BlurEmptiesMapping ==
    HandledBy(BlurMethod) => activeKeys = EmptyObject

\* a blur has been handled while a named and an unnamed key were active
C11_Witness ==
    /\ HandledBy(BlurMethod)
    /\ NamedKeys(prev) # {}
    /\ UnnamedKeys(prev) # {}

\* the last call of handleEvent was routed to _handleKeydown or _handleKeyup
HandledKey == HandledBy(KeydownMethod) \/ HandledBy(KeyupMethod)

\* C12: every handled event emits at most one change notification, and a
\* key-down or key-up emits one exactly when the set of key ids in the
\* mapping after the event differs from the set before it.
C12_NotifiedIffKeySetChanged ==
    /\ Handled => Notified <= 1
    /\ HandledKey => (Notified = 1 <=> DOMAIN activeKeys # DOMAIN prev)

\* a key-down changed only the location bits of a key that stays active
C12_Witness ==
    /\ HandledBy(KeydownMethod)
    /\ evt.key \in DOMAIN prev
    /\ activeKeys # prev
    /\ DOMAIN activeKeys = DOMAIN prev
    /\ Notified = 0

\* the bitmask of the released key after the key-up clears its location bit
Remaining == BitAnd(prev[evt.key], BitNot(ShiftLeftOne(evt.location)))

\* C14 (as stated): a key-up that leaves another bit of the same key set
\* keeps the key and emits no notification; the key-up that clears the last
\* bit removes the key and emits one notification.
C14_KeyStaysUntilLastRelease ==
    (HandledBy(KeyupMethod) /\ HasBit(prev, evt.key, evt.location))
       => IF Remaining # 0
          THEN /\ evt.key \in DOMAIN activeKeys
               /\ activeKeys[evt.key] = Remaining
               /\ Notified = 0
          ELSE /\ evt.key \notin DOMAIN activeKeys
               /\ Notified = 1

\* C14 (amended): as stated, except that a key-up of a named key that leaves
\* another bit of that key set emits one notification when it removes an
\* unnamed key id from the mapping.
C14_KeyStaysUntilLastReleaseUnlessCleanup ==
    (HandledBy(KeyupMethod) /\ HasBit(prev, evt.key, evt.location))
       => IF Remaining # 0
          THEN /\ evt.key \in DOMAIN activeKeys
               /\ activeKeys[evt.key] = Remaining
               /\ Notified = IF _isNamedKey(evt.key) /\ UnnamedKeys(prev) # {}
                             THEN 1 ELSE 0
          ELSE /\ evt.key \notin DOMAIN activeKeys
               /\ Notified = 1

\* one of two pressed locations of a key has been released
C14_Witness ==
    /\ HandledBy(KeyupMethod)
    /\ HasBit(prev, evt.key, evt.location)
    /\ evt.key \in DOMAIN activeKeys
    /\ activeKeys[evt.key] # prev[evt.key]
    /\ Notified = 0

\* C15: the mapping read during a change notification is the mapping as it
\* is when the event has been handled, never an intermediate one.
C15_NotificationSeesFinalMapping ==
    \A i \in DOMAIN observed : observed[i] = activeKeys

\* a notification of a key-down that removed an unnamed key and added a
\* named one
C15_Witness ==
    /\ HandledBy(KeydownMethod)
    /\ UnnamedKeys(prev) # {}
    /\ evt.key \in DOMAIN activeKeys
    /\ evt.key \notin DOMAIN prev
    /\ _isNamedKey(evt.key)
    /\ Notified = 1

\* C16: a key-up of a named key removes every unnamed key id from the
\* mapping and emits a single notification when a key id was removed.
C16_NamedKeyupClearsUnnamed ==
    (HandledBy(KeyupMethod) /\ _isNamedKey(evt.key))
       => /\ UnnamedKeys(activeKeys) = {}
          /\ NamedKeys(activeKeys) \subseteq NamedKeys(prev)
          /\ DOMAIN activeKeys # DOMAIN prev => Notified = 1
          /\ Notified <= 1

\* a key-up of one location of an active named key removed an unnamed key
C16_Witness ==
    /\ HandledBy(KeyupMethod)
    /\ evt.key = Shift
    /\ Shift \in DOMAIN activeKeys
    /\ UnnamedKeys(prev) # {}
    /\ UnnamedKeys(activeKeys) = {}

\* C17: a key-down or key-up of "Dead" removes every unnamed key id, leaves
\* the named entries and their bitmasks as they were, adds nothing, and
\* notifies if and only if an unnamed key id was removed.
C17_DeadOnlyCleansUp ==
    (HandledKey /\ evt.key = Dead)
       => /\ activeKeys = [k \in NamedKeys(prev) |-> prev[k]]
          /\ Notified = IF UnnamedKeys(prev) # {} THEN 1 ELSE 0

\* a key-up of "Dead" arrived while a named and an unnamed key were active
C17_Witness ==
    /\ HandledBy(KeyupMethod)
    /\ evt.key = Dead
    /\ NamedKeys(prev) # {}
    /\ UnnamedKeys(prev) # {}

\* the entry of key k is the same before and after the last event
SameEntry(k) ==
    /\ k \in DOMAIN prev <=> k \in DOMAIN activeKeys
    /\ k \in DOMAIN prev => activeKeys[k] = prev[k]

\* C18: a key-down or key-up of an unnamed key k changes at most the entry
\* of k; one of a named key k changes at most the entry of k and the
\* unnamed entries; every other entry keeps its key id and bitmask.
C18_KeyEventFrame ==
    HandledKey =>
        \A k \in (DOMAIN prev \cup DOMAIN activeKeys) \ {evt.key} :
            (_isNamedKey(k) \/ ~_isNamedKey(evt.key)) => SameEntry(k)

\* a key-up of a named key removed an unnamed key and left another named
\* key as it was
C18_Witness ==
    /\ HandledBy(KeyupMethod)
    /\ evt.key = Shift
    /\ Shift \in DOMAIN prev
    /\ Alt \in DOMAIN activeKeys
    /\ UnnamedKeys(prev) # {}
    /\ UnnamedKeys(activeKeys) = {}

\* the locations at which key k is pressed and not yet released
HeldLocations(k) == {p[2] : p \in {q \in held : q[1] = k}}

\* C19: after any sequence of key-downs and key-ups of unnamed keys only,
\* the mapping has exactly the keys with a location pressed and not yet
\* released, and the bitmask of each has exactly the bits of those locations.
C19_UnnamedMappingIsExact ==
    /\ DOMAIN activeKeys = HeldKeys
    /\ \A k \in DOMAIN activeKeys :
          /\ activeKeys[k] >= 1
          /\ activeKeys[k] < ShiftLeftOne(MaxLocation + 1)
          /\ \A location \in Locations :
                HasBit(activeKeys, k, location) <=> location \in HeldLocations(k)

\* one unnamed key is pressed at two locations and the other one has just
\* been released
C19_Witness ==
    /\ HandledBy(KeyupMethod)
    /\ evt.key = b
    /\ b \in DOMAIN prev
    /\ b \notin DOMAIN activeKeys
    /\ Cardinality(HeldLocations(a)) = 2

\* C13: two watchers on the same window are independent: the _destroy of one
\* leaves the other's mapping, listeners and observers' view untouched, a
\* watcher loses its listeners only by its own _destroy, and a watcher's
\* mapping changes only by its own handling of an event delivered to it.
C13_InstancesIndependent ==
    [][/\ listeners' # listeners => second' = second
       /\ second'.listeners # second.listeners => first' = first
       /\ listeners' = {keydown, keyup, blur} \/ op' = "_destroy"
       /\ second'.listeners = {keydown, keyup, blur} \/ second'.op = "_destroy"
       /\ second'.activeKeys # second.activeKeys
             => /\ second'.evt.type \in second.listeners
                /\ second'.activeKeys = handleEvent(second.activeKeys, second'.evt).keys
                /\ second'.observed = handleEvent(second.activeKeys, second'.evt).seen
       /\ activeKeys' # activeKeys
             => /\ evt'.type \in listeners
                /\ activeKeys' = handleEvent(activeKeys, evt').keys
                /\ observed' = handleEvent(activeKeys, evt').seen
      ]_vars

\* the first watcher was disposed with keys active; the second one has
\* since handled an event, notified, and holds a different mapping
C13_Witness ==
    /\ listeners = {}
    /\ activeKeys # EmptyObject
    /\ second.op = "handleEvent"
    /\ second.observed # <<>>
    /\ second.activeKeys # EmptyObject
    /\ second.activeKeys # activeKeys

====
